---- MODULE Spec2Model ----
(***************************************************************************)
(* Peer assessment report generator: pa_report.py and its near-duplicate   *)
(* peer_assessment_report.py.  One run of main() is a sequence of stages   *)
(* (argument check, parse_csv, extract_students_and_columns,               *)
(* calculate_scores, normalize_scores, extract_comments, generate_report); *)
(* each stage is one action.  Strings are sequences of one-character       *)
(* strings so that str.strip, int() and the header regular expression are  *)
(* computed character by character.  Python floats are modelled as exact   *)
(* rationals [num, den] in lowest terms.                                   *)
(***************************************************************************)
EXTENDS Integers, Sequences, FiniteSets, TLC

VARIABLES
    variant,      \* which script runs: "pa_report" or "peer_assessment_report"
    argv,         \* sys.argv
    file,         \* the file system entry behind sys.argv[1]
    pc,           \* position of main()
    headers,      \* rows[0]
    data,         \* rows[1:]
    students,     \* dict name -> {overall, justification}, in insertion order
    name_col,     \* respondent-identity column, or None
    raw_avgs,     \* dict name -> raw average
    all_scores,   \* flat score pool
    normalised,   \* dict name -> normalised score
    group_mean,
    adjustment,
    comments,     \* defaultdict(list): name -> comment list (keys present only)
    out,          \* lines printed so far
    status,       \* process exit status, NoStatus while running
    exc,          \* uncaught exception that ended the run, or "none"
    scored,       \* history: <<student, row index>> pairs appended by calculate_scores
    skipped,      \* history: <<student, row index>> pairs skipped as self-assessment by calculate_scores
    commented,    \* history: <<student, row index>> pairs appended by extract_comments
    cskipped      \* history: <<student, row index>> pairs skipped as self-assessment by extract_comments

vars == <<variant, argv, file, pc, headers, data, students, name_col, raw_avgs,
          all_scores, normalised, group_mean, adjustment, comments, out, status,
          exc, scored, skipped, commented, cskipped>>

(***************************************************************************)
(* Bounds of the model.                                                    *)
(***************************************************************************)
MaxRows == 2      \* data rows in the input file
MaxPool == 2      \* length of the score pool when normalize_scores is called directly
MaxRating == 10   \* largest rating value when normalize_scores is called directly

(***************************************************************************)
(* Program constants.                                                      *)
(***************************************************************************)
Target == 5       \* normalize_scores(..., target=5)
ScoreMin == 0     \* max(0, ...)
ScoreMax == 9     \* min(9, ...)
None == -1        \* Python None for name_col (column indices are >= 0)
NoStatus == -1    \* the process has not exited

(***************************************************************************)
(* Characters and strings.                                                 *)
(***************************************************************************)
Digits == <<"0", "1", "2", "3", "4", "5", "6", "7", "8", "9">>

IsDigit(c) == \E i \in 1..10 : Digits[i] = c

DigitVal(c) == (CHOOSE i \in 1..10 : Digits[i] = c) - 1

IsSpace(c) == c \in {" ", "\t", "\n", "\r"}

Upper == <<"A", "B", "C", "D", "E", "F", "G", "H", "I", "J", "K", "L", "M",
           "N", "O", "P", "Q", "R", "S", "T", "U", "V", "W", "X", "Y", "Z">>

Lower == <<"a", "b", "c", "d", "e", "f", "g", "h", "i", "j", "k", "l", "m",
           "n", "o", "p", "q", "r", "s", "t", "u", "v", "w", "x", "y", "z">>

\* str.lower() on one character
LowerChar(c) ==
    IF \E i \in 1..26 : Upper[i] = c
    THEN Lower[CHOOSE i \in 1..26 : Upper[i] = c]
    ELSE c

\* str.lower()
LowerStr(s) == [i \in 1..Len(s) |-> LowerChar(s[i])]

\* str.strip(): drop leading and trailing whitespace
Strip(s) ==
    LET idx == {i \in 1..Len(s) : ~IsSpace(s[i])}
    IN  IF idx = {} THEN <<>>
        ELSE LET lo == CHOOSE i \in idx : \A j \in idx : i <= j
                 hi == CHOOSE i \in idx : \A j \in idx : i >= j
             IN  SubSeq(s, lo, hi)

\* s[i..] starts with p
StartsAt(s, i, p) ==
    /\ i + Len(p) - 1 <= Len(s)
    /\ \A k \in 1..Len(p) : s[i + k - 1] = p[k]

\* p in s
Contains(s, p) == \E i \in 1..(Len(s) + 1) : StartsAt(s, i, p)

RECURSIVE DigitsValue(_)
DigitsValue(s) ==
    IF s = <<>> THEN 0
    ELSE IF s[Len(s)] = "_" THEN DigitsValue(SubSeq(s, 1, Len(s) - 1))
    ELSE 10 * DigitsValue(SubSeq(s, 1, Len(s) - 1)) + DigitVal(s[Len(s)])

\* int(s): surrounding whitespace, an optional sign, decimal digits (single
\* underscores between digits allowed).  ok = FALSE stands for ValueError.
ParseInt(s) ==
    LET t == Strip(s)
        signed == t # <<>> /\ t[1] \in {"+", "-"}
        body == IF signed THEN SubSeq(t, 2, Len(t)) ELSE t
        wellFormed ==
            /\ body # <<>>
            /\ IsDigit(body[1])
            /\ IsDigit(body[Len(body)])
            /\ \A i \in 1..Len(body) : IsDigit(body[i]) \/ body[i] = "_"
            /\ \A i \in 1..(Len(body) - 1) : ~(body[i] = "_" /\ body[i + 1] = "_")
        mag == DigitsValue(body)
    IN  IF wellFormed
        THEN [ok |-> TRUE, val |-> IF signed /\ t[1] = "-" THEN 0 - mag ELSE mag]
        ELSE [ok |-> FALSE, val |-> 0]

(***************************************************************************)
(* Exact rationals for Python's float results.                             *)
(***************************************************************************)
Abs(x) == IF x < 0 THEN 0 - x ELSE x

RECURSIVE GCD(_, _)
GCD(a, b) == IF b = 0 THEN a ELSE GCD(b, a % b)

\* n / d in lowest terms, d > 0
Rat(n, d) ==
    LET g == GCD(Abs(n), d)
    IN  [num |-> n \div g, den |-> d \div g]

RatAdd(a, b) == Rat(a.num * b.den + b.num * a.den, a.den * b.den)

RatSub(a, b) == Rat(a.num * b.den - b.num * a.den, a.den * b.den)

RECURSIVE Sum(_)
Sum(s) == IF s = <<>> THEN 0 ELSE s[1] + Sum(Tail(s))

(***************************************************************************)
(* Dictionaries that keep insertion order: a sequence of entries with      *)
(* distinct names.                                                         *)
(***************************************************************************)
Keys(d) == {d[i].name : i \in 1..Len(d)}

KeyList(d) == [i \in 1..Len(d) |-> d[i].name]

Lookup(d, k) == d[CHOOSE i \in 1..Len(d) : d[i].name = k]

\* d[k] = v: an existing key keeps its position, a new key goes last
DictPut(d, e) ==
    IF e.name \in Keys(d)
    THEN [i \in 1..Len(d) |-> IF d[i].name = e.name THEN e ELSE d[i]]
    ELSE Append(d, e)

EmptyMap == [k \in {} |-> 0]

(***************************************************************************)
(* extract_students_and_columns                                            *)
(***************************************************************************)
PatRate == <<"p", "l", "e", "a", "s", "e", " ", "r", "a", "t", "e", " ">>

PatThe == <<"t", "h", "e", " ">>

PatOverall == <<"o", "v", "e", "r", "a", "l", "l", " ", "c", "o", "n", "t", "r", "i", "b", "u", "t", "i", "o", "n", " ", "f", "r", "o", "m", " ">>

SelectYourName == <<"s", "e", "l", "e", "c", "t", " ", "y", "o", "u", "r", " ", "n", "a", "m", "e">>

YourName == <<"y", "o", "u", "r", " ", "n", "a", "m", "e">>

\* Index where group 1 of
\*   "Please rate (?:the )?overall contribution from (.+)"  (IGNORECASE)
\* starts when the pattern matches h at i, else 0; l is h in lower case.
\* (.+) needs one character that is not a newline.
CaptureStartAt(h, l, i) ==
    LET withThe == PatRate \o PatThe \o PatOverall
        without == PatRate \o PatOverall
        ok(p) == /\ StartsAt(l, i, p)
                 /\ i + Len(p) <= Len(h)
                 /\ h[i + Len(p)] # "\n"
    IN  IF ok(withThe) THEN i + Len(withThe)
        ELSE IF ok(without) THEN i + Len(without)
        ELSE 0

\* overall_pattern.search(header): start of the leftmost match, 0 without one
SearchStart(h) ==
    LET l == LowerStr(h)
        at == {i \in 1..Len(h) : CaptureStartAt(h, l, i) # 0}
    IN  IF at = {} THEN 0 ELSE CHOOSE i \in at : \A j \in at : i <= j

HeaderMatches(h) == SearchStart(h) # 0

\* match.group(1).strip(); (.+) is greedy and stops at a newline
HeaderName(h) ==
    LET from == CaptureStartAt(h, LowerStr(h), SearchStart(h))
        nl == {k \in from..Len(h) : h[k] = "\n"}
        to == IF nl = {} THEN Len(h)
              ELSE (CHOOSE k \in nl : \A j \in nl : k <= j) - 1
    IN  Strip(SubSeq(h, from, to))

\* the students dict after the first n header cells (column index = position - 1)
RECURSIVE StudentsUpTo(_, _)
StudentsUpTo(hs, n) ==
    IF n = 0 THEN <<>>
    ELSE LET d == StudentsUpTo(hs, n - 1)
         IN  IF HeaderMatches(hs[n])
             THEN DictPut(d, [name |-> HeaderName(hs[n]),
                              overall |-> n - 1,
                              justification |-> n])
             ELSE d

IsNameHeader(h) ==
    LET l == LowerStr(h)
    IN  Contains(l, SelectYourName) \/ Contains(l, YourName)

\* first column whose header names the respondent, else None
NameCol(hs) ==
    LET idx == {i \in 1..Len(hs) : IsNameHeader(hs[i])}
    IN  IF idx = {} THEN None
        ELSE (CHOOSE i \in idx : \A j \in idx : i <= j) - 1

(***************************************************************************)
(* Inputs.                                                                 *)
(***************************************************************************)
Alice == <<"A", "l", "i", "c", "e">>

Bob == <<"B", "o", "b">>

Carol == <<"C", "a", "r", "o", "l">>

HdrName == <<"S", "e", "l", "e", "c", "t", " ", "y", "o", "u", "r", " ", "n", "a", "m", "e">>

HdrId == <<"I", "D">>

HdrEmail == <<"E", "m", "a", "i", "l">>

HdrRateAlice == <<"P", "l", "e", "a", "s", "e", " ", "r", "a", "t", "e", " ", "t", "h", "e", " ", "o", "v", "e", "r", "a", "l", "l", " ", "c", "o", "n", "t", "r", "i", "b", "u", "t", "i", "o", "n", " ", "f", "r", "o", "m", " ", "A", "l", "i", "c", "e">>

HdrRateBob == <<"p", "l", "e", "a", "s", "e", " ", "R", "A", "T", "E", " ", "o", "v", "e", "r", "a", "l", "l", " ", "c", "o", "n", "t", "r", "i", "b", "u", "t", "i", "o", "n", " ", "f", "r", "o", "m", " ", "B", "o", "b", " ">>

HdrJust == <<"J", "u", "s", "t", "i", "f", "i", "c", "a", "t", "i", "o", "n">>

\* name column 0, one student rated in column 3
HeaderA == <<HdrName, HdrId, HdrEmail, HdrRateAlice, HdrJust>>

\* name column 0, Bob rated in column 1 and Alice in column 3
HeaderAB == <<HdrName, HdrRateBob, HdrJust, HdrRateAlice, HdrJust>>

\* as HeaderAB without a respondent name column
HeaderNoName == <<HdrId, HdrRateBob, HdrJust, HdrRateAlice, HdrJust>>

\* no rating column at all
HeaderNoStudents == <<HdrName, HdrId, HdrEmail>>

Headers == {HeaderA, HeaderAB, HeaderNoName, HeaderNoStudents}

Dots == <<".", ".", ".">>

GreatWork == <<"g", "r", "e", "a", "t", " ", "w", "o", "r", "k">>

NA == <<"n", "/", "a">>

RowBobRatesAlice == <<Bob, Dots, Dots, <<"8">>, GreatWork>>

RowAliceRatesSelf == <<Alice, Dots, Dots, <<"9">>, NA>>

RowCarolRatesBoth == <<Carol, <<"9">>, <<" ", "o", "k", " ">>, <<"8">>, <<" ">>>>

RowAliceRatesBob == <<Alice, <<"-", "3">>, <<>>, <<"9">>, GreatWork>>

BaseRows == {RowBobRatesAlice, RowAliceRatesSelf, RowCarolRatesBoth, RowAliceRatesBob}

\* the rows as exported, and the truncations of two of them (ragged rows,
\* the empty row included)
Rows ==
    BaseRows
    \cup {SubSeq(r, 1, n) : r \in {RowCarolRatesBoth, RowAliceRatesBob}, n \in 0..4}

RECURSIVE SeqsUpTo(_, _)
SeqsUpTo(S, n) ==
    IF n = 0 THEN {<<>>}
    ELSE LET shorter == SeqsUpTo(S, n - 1)
         IN  shorter \cup {Append(s, x) : s \in {t \in shorter : Len(t) = n - 1}, x \in S}

DataSets == SeqsUpTo(Rows, MaxRows)

Prog == <<"p", "a">>

Path == <<"r", ".", "c", "s", "v">>

Variants == {"pa_report", "peer_assessment_report"}

\* what the file system holds at Path
Files ==
    {[state |-> "missing", rows |-> <<>>], [state |-> "unreadable", rows |-> <<>>],
     [state |-> "ok", rows |-> <<>>]}
    \cup {[state |-> "ok", rows |-> <<h>> \o d] : h \in Headers, d \in DataSets}

Init ==
    /\ variant \in Variants
    /\ \/ argv = <<Prog>> /\ file = [state |-> "missing", rows |-> <<>>]
       \/ argv = <<Prog, Path>> /\ file \in Files
    /\ pc = "main"
    /\ headers = <<>>
    /\ data = <<>>
    /\ students = <<>>
    /\ name_col = None
    /\ raw_avgs = EmptyMap
    /\ all_scores = <<>>
    /\ normalised = EmptyMap
    /\ group_mean = Rat(0, 1)
    /\ adjustment = Rat(0, 1)
    /\ comments = EmptyMap
    /\ out = <<>>
    /\ status = NoStatus
    /\ exc = "none"
    /\ scored = {}
    /\ skipped = {}
    /\ commented = {}
    /\ cskipped = {}

(***************************************************************************)
(* Printed lines.  A line keeps the values that were formatted into it.    *)
(***************************************************************************)
Line(tag) == [tag |-> tag, student |-> <<>>, score |-> 0, items |-> <<>>]

StudentLine(tag, student, score, items) ==
    [tag |-> tag, student |-> student, score |-> score, items |-> items]

ReportTags == {"banner", "summary", "table_header", "table_row", "table_end",
               "group_mean", "median", "feedback_header", "feedback"}

(***************************************************************************)
(* Row access.  Column indices are zero-based as in the source.            *)
(***************************************************************************)
HasCol(row, c) == c < Len(row)

Cell(row, c) == row[c + 1]

\* row[name_col] raises IndexError
RaterRaises(row, nc) == nc # None /\ ~HasCol(row, nc)

\* mutant: the self-assessment test never fires
IsSelfNever(row, nc, student) == FALSE

\* rater == student, with rater = row[name_col] if name_col is not None else None
IsSelf(row, nc, student) == nc # None /\ Cell(row, nc) = student

\* first row on which row[name_col] raises, 0 if none
FirstRaising(d, nc) ==
    LET bad == {i \in 1..Len(d) : RaterRaises(d[i], nc)}
    IN  IF bad = {} THEN 0 ELSE CHOOSE i \in bad : \A j \in bad : i <= j

(***************************************************************************)
(* calculate_scores                                                        *)
(***************************************************************************)
\* int(row[cols['overall']]) succeeds: no IndexError, no ValueError
Accepted(row, col) == HasCol(row, col) /\ ParseInt(Cell(row, col)).ok

\* the rows among the first n whose rating is appended to the student's scores
ScoreRows(d, n, nc, st) ==
    {i \in 1..n : ~IsSelf(d[i], nc, st.name) /\ Accepted(d[i], st.overall)}

\* the rows among the first n skipped by `continue`
SelfRows(d, n, nc, st) == {i \in 1..n : IsSelf(d[i], nc, st.name)}

\* the student's scores list after the first n rows
RECURSIVE ScoresOf(_, _, _, _)
ScoresOf(d, n, nc, st) ==
    IF n = 0 THEN <<>>
    ELSE LET before == ScoresOf(d, n - 1, nc, st)
         IN  IF n \in ScoreRows(d, n, nc, st)
             THEN Append(before, ParseInt(Cell(d[n], st.overall)).val)
             ELSE before

\* sum(scores) / len(scores) if scores else 0
RawAvg(scores) ==
    IF scores # <<>> THEN Rat(Sum(scores), Len(scores)) ELSE Rat(0, 1)

\* all_scores after the first k students
RECURSIVE PoolUpTo(_, _, _, _)
PoolUpTo(d, nc, sts, k) ==
    IF k = 0 THEN <<>>
    ELSE PoolUpTo(d, nc, sts, k - 1) \o ScoresOf(d, Len(d), nc, sts[k])

(***************************************************************************)
(* normalize_scores                                                        *)
(***************************************************************************)
\* mutant: an exact half is rounded up
RoundHalfUp(x) ==
    IF 2 * (x.num % x.den) < x.den THEN x.num \div x.den ELSE (x.num \div x.den) + 1

\* round(x): nearest integer, an exact half goes to the even neighbour
Round(x) ==
    LET q == x.num \div x.den
        r == x.num % x.den
    IN  IF 2 * r < x.den THEN q
        ELSE IF 2 * r > x.den THEN q + 1
        ELSE IF q % 2 = 0 THEN q ELSE q + 1

Max(a, b) == IF a >= b THEN a ELSE b

Min(a, b) == IF a <= b THEN a ELSE b

\* max(0, min(9, norm_score))
Clamp(n) == Max(ScoreMin, Min(ScoreMax, n))

\* sum(all_scores) / len(all_scores)
GroupMean(pool) == Rat(Sum(pool), Len(pool))

\* mutant: the difference is taken the other way round
AdjustmentReversed(mean) == RatSub(mean, Rat(Target, 1))

\* target - group_mean
Adjustment(mean) == RatSub(Rat(Target, 1), mean)

NormScore(raw, adj) == Clamp(Round(RatAdd(raw, adj)))

(***************************************************************************)
(* extract_comments                                                        *)
(***************************************************************************)
\* mutant: the cell is tested before it is stripped
HasCommentUnstripped(row, col) == HasCol(row, col) /\ Cell(row, col) # <<>>

\* row[cols['justification']].strip() is reached and is non-empty
HasComment(row, col) == HasCol(row, col) /\ Strip(Cell(row, col)) # <<>>

CommentRows(d, n, nc, st) ==
    {i \in 1..n : ~IsSelf(d[i], nc, st.name) /\ HasComment(d[i], st.justification)}

\* comments[student] after the first n rows
RECURSIVE CommentsOf(_, _, _, _)
CommentsOf(d, n, nc, st) ==
    IF n = 0 THEN <<>>
    ELSE LET before == CommentsOf(d, n - 1, nc, st)
         IN  IF n \in CommentRows(d, n, nc, st)
             THEN Append(before, Strip(Cell(d[n], st.justification)))
             ELSE before

\* comments[student] on a defaultdict(list): the list, [] for a missing key
CommentList(c, student) == IF student \in DOMAIN c THEN c[student] ELSE <<>>

(***************************************************************************)
(* generate_report                                                         *)
(***************************************************************************)
\* sorted(values): insertion into an ascending list
RECURSIVE Sorted(_)
Sorted(s) ==
    IF s = <<>> THEN <<>>
    ELSE LET rest == Sorted(Tail(s))
             below == {i \in 1..Len(rest) : rest[i] < s[1]}
             k == Cardinality(below)
         IN  SubSeq(rest, 1, k) \o <<s[1]>> \o SubSeq(rest, k + 1, Len(rest))

\* normalised.values()
Values(m, names) ==
    LET ks == SelectSeq(names, LAMBDA n : n \in DOMAIN m)
    IN  [i \in 1..Len(ks) |-> m[ks[i]]]

\* mutant: the lower-middle element of an even count
MedianLowerMiddle(vals) ==
    IF vals # <<>> THEN Sorted(vals)[(Len(vals) + 1) \div 2] ELSE 0

\* sorted_vals[len(sorted_vals) // 2] if sorted_vals else 0
Median(vals) ==
    LET sorted_vals == Sorted(vals)
    IN  IF sorted_vals # <<>> THEN sorted_vals[(Len(sorted_vals) \div 2) + 1] ELSE 0

\* normalized.get(s, 0)
GetOr0(m, k) == IF k \in DOMAIN m THEN m[k] ELSE 0

\* sorted(names, key=lambda s: normalized.get(s, 0), reverse=True): stable
RECURSIVE SortedByScoreDesc(_, _)
SortedByScoreDesc(names, m) ==
    IF names = <<>> THEN <<>>
    ELSE LET rest == SortedByScoreDesc(Tail(names), m)
             ahead == {i \in 1..Len(rest) : GetOr0(m, rest[i]) > GetOr0(m, names[1])}
             k == Cardinality(ahead)
         IN  SubSeq(rest, 1, k) \o <<names[1]>> \o SubSeq(rest, k + 1, Len(rest))

\* the order in which the report lists the students
StudentOrder(v, sts, m) ==
    IF v = "pa_report" THEN KeyList(sts) ELSE SortedByScoreDesc(KeyList(sts), m)

\* position of the first listed student whose normalised[student] raises KeyError, 0 if none
FirstMissing(order, m) ==
    LET bad == {i \in 1..Len(order) : order[i] \notin DOMAIN m}
    IN  IF bad = {} THEN 0 ELSE CHOOSE i \in bad : \A j \in bad : i <= j

TableRows(order, m, n) ==
    [i \in 1..n |-> StudentLine("table_row", order[i], m[order[i]], <<>>)]

FeedbackBlocks(order, m, c) ==
    [i \in 1..Len(order) |->
        StudentLine("feedback", order[i], m[order[i]], CommentList(c, order[i]))]

(***************************************************************************)
(* main(): one action per stage.                                           *)
(***************************************************************************)
\* len(sys.argv) < 2
ArgsMissing(a) == Len(a) < 2

\* mutant: the check for an empty registry never fires
NoStudentsNever(sts) == FALSE

\* not students
NoStudents(sts) == sts = <<>>

Exit(lines, code) ==
    /\ out' = out \o lines
    /\ status' = code
    /\ pc' = "exit"

Raise(e) ==
    /\ exc' = e
    /\ status' = 1
    /\ pc' = "crashed"

CheckArgs ==
    /\ pc = "main"
    /\ IF ArgsMissing(argv)
       THEN Exit(<<Line("usage")>>, 1)
       ELSE /\ pc' = "parse"
            /\ UNCHANGED <<out, status>>
    /\ UNCHANGED <<variant, argv, file, headers, data, students, name_col, raw_avgs,
                   all_scores, normalised, group_mean, adjustment, comments, exc,
                   scored, skipped, commented, cskipped>>

\* headers, data = parse_csv(filepath) inside main's try/except
ParseCsv ==
    /\ pc = "parse"
    /\ IF file.state = "missing"
       THEN /\ Exit(<<Line("error_not_found")>>, 1)
            /\ UNCHANGED <<headers, data>>
       ELSE IF file.state = "unreadable" \/ file.rows = <<>>
       THEN /\ Exit(<<Line("error_reading")>>, 1)
            /\ UNCHANGED <<headers, data>>
       ELSE /\ headers' = file.rows[1]
            /\ data' = Tail(file.rows)
            /\ pc' = "extract"
            /\ UNCHANGED <<out, status>>
    /\ UNCHANGED <<variant, argv, file, students, name_col, raw_avgs, all_scores,
                   normalised, group_mean, adjustment, comments, exc,
                   scored, skipped, commented, cskipped>>

\* students, name_col = extract_students_and_columns(headers), then main's
\* validation, warning and "Detected ..." line
ExtractStudentsAndColumns ==
    /\ pc = "extract"
    /\ students' = StudentsUpTo(headers, Len(headers))
    /\ name_col' = NameCol(headers)
    /\ IF NoStudents(students')
       THEN Exit(<<Line("error_no_students")>>, 1)
       ELSE /\ out' = out
                      \o (IF name_col' = None THEN <<Line("warning_no_name_col")>> ELSE <<>>)
                      \o <<Line("detected")>>
            /\ pc' = "calculate"
            /\ UNCHANGED status
    /\ UNCHANGED <<variant, argv, file, headers, data, raw_avgs, all_scores,
                   normalised, group_mean, adjustment, comments, exc,
                   scored, skipped, commented, cskipped>>

\* rows the loops get through for the k-th student: all of them, or, when
\* row[name_col] raises, the rows of the first student before the raising one
RowsSeen(d, nc, k) ==
    IF FirstRaising(d, nc) = 0 THEN Len(d)
    ELSE IF k = 1 THEN FirstRaising(d, nc) - 1 ELSE 0

\* history of a stage: the <<student, row>> pairs that took the given branch
\* ("scored", "skipped", "commented") before the stage returned or raised
PairsOf(d, nc, sts, branch) ==
    UNION {{<<sts[k].name, i>> :
               i \in IF branch = "scored" THEN ScoreRows(d, RowsSeen(d, nc, k), nc, sts[k])
                     ELSE IF branch = "skipped" THEN SelfRows(d, RowsSeen(d, nc, k), nc, sts[k])
                     ELSE CommentRows(d, RowsSeen(d, nc, k), nc, sts[k])} :
              k \in 1..Len(sts)}

\* raw_avgs, all_scores = calculate_scores(data, students, name_col)
CalculateScores ==
    /\ pc = "calculate"
    /\ LET bad == IF students = <<>> THEN 0 ELSE FirstRaising(data, name_col)
       IN  /\ scored' = PairsOf(data, name_col, students, "scored")
           /\ skipped' = PairsOf(data, name_col, students, "skipped")
           /\ IF bad # 0
              THEN /\ Raise("IndexError")
                   /\ UNCHANGED <<raw_avgs, all_scores>>
              ELSE /\ raw_avgs' =
                          [n \in Keys(students) |->
                              RawAvg(ScoresOf(data, Len(data), name_col, Lookup(students, n)))]
                   /\ all_scores' = PoolUpTo(data, name_col, students, Len(students))
                   /\ pc' = "normalize"
                   /\ UNCHANGED <<exc, status>>
    /\ UNCHANGED <<variant, argv, file, headers, data, students, name_col,
                   normalised, group_mean, adjustment, comments, out,
                   commented, cskipped>>

\* normalised, group_mean, adjustment = normalize_scores(raw_avgs, all_scores)
NormalizeScores ==
    /\ pc = "normalize"
    /\ IF all_scores = <<>>
       THEN /\ normalised' = EmptyMap
            /\ group_mean' = Rat(0, 1)
            /\ adjustment' = Rat(0, 1)
       ELSE /\ group_mean' = GroupMean(all_scores)
            /\ adjustment' = Adjustment(group_mean')
            /\ normalised' = [n \in DOMAIN raw_avgs |-> NormScore(raw_avgs[n], adjustment')]
    /\ pc' = "comments"
    /\ UNCHANGED <<variant, argv, file, headers, data, students, name_col, raw_avgs,
                   all_scores, comments, out, status, exc,
                   scored, skipped, commented, cskipped>>

\* comments = extract_comments(data, students, name_col)
ExtractComments ==
    /\ pc = "comments"
    /\ LET bad == IF students = <<>> THEN 0 ELSE FirstRaising(data, name_col)
           got == {n \in Keys(students) :
                      CommentRows(data, Len(data), name_col, Lookup(students, n)) # {}}
       IN  /\ commented' = PairsOf(data, name_col, students, "commented")
           /\ cskipped' = PairsOf(data, name_col, students, "skipped")
           /\ IF bad # 0
              THEN /\ Raise("IndexError")
                   /\ UNCHANGED comments
              ELSE /\ comments' =
                          [n \in got |->
                              CommentsOf(data, Len(data), name_col, Lookup(students, n))]
                   /\ pc' = "report"
                   /\ UNCHANGED <<exc, status>>
    /\ UNCHANGED <<variant, argv, file, headers, data, students, name_col, raw_avgs,
                   all_scores, normalised, group_mean, adjustment, out,
                   scored, skipped>>

\* generate_report(students, raw_avgs, normalised, comments, group_mean, adjustment)
GenerateReport ==
    /\ pc = "report"
    /\ LET order == StudentOrder(variant, students, normalised)
           missing == FirstMissing(order, normalised)
           head == <<Line("banner"), Line("summary"), Line("table_header")>>
           stats == <<Line("table_end"),
                      Line("group_mean"),
                      StudentLine("median", <<>>, Median(Values(normalised, KeyList(students))), <<>>),
                      Line("feedback_header")>>
       IN  IF missing # 0
           THEN \* normalised[student] raises KeyError in the summary table
                /\ out' = out \o head \o TableRows(order, normalised, missing - 1)
                /\ Raise("KeyError")
                /\ UNCHANGED comments
           ELSE /\ out' = out \o head \o TableRows(order, normalised, Len(order))
                            \o stats \o FeedbackBlocks(order, normalised, comments)
                \* comments[student] on the defaultdict inserts the missing keys
                /\ comments' = [n \in DOMAIN comments \cup Keys(students) |->
                                   CommentList(comments, n)]
                /\ pc' = "done"
                /\ status' = 0
                /\ UNCHANGED exc
    /\ UNCHANGED <<variant, argv, file, headers, data, students, name_col, raw_avgs,
                   all_scores, normalised, group_mean, adjustment,
                   scored, skipped, commented, cskipped>>

Next ==
    \/ CheckArgs
    \/ ParseCsv
    \/ ExtractStudentsAndColumns
    \/ CalculateScores
    \/ NormalizeScores
    \/ ExtractComments
    \/ GenerateReport

Spec == Init /\ [][Next]_vars

(***************************************************************************)
(* normalize_scores called on its own: the same action, started from       *)
(* arbitrary raw averages and an arbitrary score pool.                     *)
(***************************************************************************)
RawSamples ==
    {Rat(n, d) : n \in 0..(2 * MaxRating), d \in {1, 2}} \cup {Rat(49, 5)}

RawInputs ==
    {[n \in {Alice, Bob} |-> IF n = Alice THEN a ELSE b] :
        a \in RawSamples, b \in {Rat(0, 1), Rat(MaxRating, 1)}}

InitNorm ==
    /\ variant = "pa_report"
    /\ argv = <<Prog, Path>>
    /\ file = [state |-> "ok", rows |-> <<>>]
    /\ pc = "normalize"
    /\ headers = <<>>
    /\ data = <<>>
    /\ students = <<>>
    /\ name_col = None
    /\ raw_avgs \in RawInputs
    /\ all_scores \in SeqsUpTo(0..MaxRating, MaxPool)
    /\ normalised = EmptyMap
    /\ group_mean = Rat(0, 1)
    /\ adjustment = Rat(0, 1)
    /\ comments = EmptyMap
    /\ out = <<>>
    /\ status = NoStatus
    /\ exc = "none"
    /\ scored = {}
    /\ skipped = {}
    /\ commented = {}
    /\ cskipped = {}

NextNorm == NormalizeScores

SpecNorm == InitNorm /\ [][NextNorm]_vars

(***************************************************************************)
(* Properties.                                                             *)
(***************************************************************************)
\* the row's respondent-identity cell equals the student's name
SelfRow(i, name) ==
    /\ name_col # None
    /\ name_col + 1 <= Len(data[i])
    /\ data[i][name_col + 1] = name

\* the row passes self-exclusion for the student and its rating cell is an integer
RatedBy(i, st) ==
    /\ ~SelfRow(i, st.name)
    /\ st.overall + 1 <= Len(data[i])
    /\ ParseInt(data[i][st.overall + 1]).ok

RECURSIVE SumOfPairs(_)
SumOfPairs(ps) ==
    IF ps = {} THEN 0
    ELSE LET p == CHOOSE q \in ps : TRUE
         IN  ParseInt(data[p[2]][Lookup(students, p[1]).overall + 1]).val
             + SumOfPairs(ps \ {p})

\* C1: after calculate_scores and normalize_scores every student of the
\* registry has a normalised score, an integer in 0..9.
C1_EveryStudentNormalised ==
    pc = "comments" =>
        \A n \in Keys(students) :
            n \in DOMAIN normalised /\ normalised[n] \in ScoreMin..ScoreMax

\* C2: a row whose identity cell equals a student's name is never appended to
\* that student's scores (so the pool and the raw average hold only other
\* rows' ratings) nor to the student's comments, and calculate_scores and
\* extract_comments skip the same rows.
C2_SelfRatingExcluded ==
    /\ \A k \in 1..Len(students) : \A i \in 1..Len(data) :
          SelfRow(i, students[k].name) =>
              /\ <<students[k].name, i>> \notin scored
              /\ <<students[k].name, i>> \notin commented
    /\ pc \in {"normalize", "comments", "report", "done"} =>
          /\ Len(all_scores) = Cardinality(scored)
          /\ Sum(all_scores) = SumOfPairs(scored)
          /\ \A k \in 1..Len(students) :
                LET mine == {p \in scored : p[1] = students[k].name}
                    avg == raw_avgs[students[k].name]
                IN  avg.num * Cardinality(mine) = SumOfPairs(mine) * avg.den
    /\ pc \in {"report", "done"} => skipped = cskipped

\* C2 witness: both stages have run over a self-rating row with a valid
\* rating and a non-empty justification, and other rows were counted.
C2_Witness ==
    /\ pc = "report"
    /\ scored # {}
    /\ commented # {}
    /\ \E k \in 1..Len(students) : \E i \in 1..Len(data) :
          /\ SelfRow(i, students[k].name)
          /\ Len(data[i]) >= students[k].justification + 1
          /\ ParseInt(data[i][students[k].overall + 1]).ok
          /\ Strip(data[i][students[k].justification + 1]) # <<>>

\* C3: after calculate_scores, normalize_scores and extract_comments a
\* student without any accepted rating has raw average 0 and is a key of the
\* raw-average, normalised and comment mappings.
C3_UnratedStudentPresent ==
    pc = "report" =>
        \A k \in 1..Len(students) :
            (\A i \in 1..Len(data) : ~RatedBy(i, students[k])) =>
                /\ students[k].name \in DOMAIN raw_avgs
                /\ raw_avgs[students[k].name].num = 0
                /\ students[k].name \in DOMAIN normalised
                /\ students[k].name \in DOMAIN comments

\* C4: with students detected and an empty score pool, normalize_scores
\* returns ({}, 0, 0) and generate_report completes without a failed lookup.
C4_EmptyPoolReportCompletes ==
    (students # <<>> /\ all_scores = <<>>) =>
        /\ pc \in {"comments", "report", "done"} =>
              /\ normalised = EmptyMap
              /\ group_mean.num = 0
              /\ adjustment.num = 0
        /\ ~(pc = "crashed" /\ exc = "KeyError")

\* C5: no out-of-range cell access aborts the run, whatever the row lengths.
C5_RaggedRowsNeverAbort == exc # "IndexError"

RECURSIVE AdjustedSum(_)
AdjustedSum(names) ==
    IF names = <<>> THEN Rat(0, 1)
    ELSE RatAdd(RatAdd(raw_avgs[names[1]], adjustment), AdjustedSum(Tail(names)))

RatingCount(name) == Cardinality({p \in scored : p[1] = name})

\* C6 as claimed: whenever the pool is non-empty, the mean over the students
\* of raw average + adjustment is the target.
C6_CenteringAlways ==
    (pc = "comments" /\ all_scores # <<>>) =>
        AdjustedSum(KeyList(students)) = Rat(Target * Len(students), 1)

\* C6 amended: whenever the pool is non-empty and every student received the
\* same number of accepted ratings, the mean over the students of
\* raw average + adjustment is the target.
C6_CenteringEqualCounts ==
    (/\ pc = "comments"
     /\ all_scores # <<>>
     /\ \A k \in 1..Len(students) :
           RatingCount(students[k].name) = RatingCount(students[1].name)) =>
        AdjustedSum(KeyList(students)) = Rat(Target * Len(students), 1)

\* C6 witness: two students with one accepted rating each and different raw
\* averages have been normalised.
C6_Witness ==
    /\ pc = "comments"
    /\ Len(students) = 2
    /\ RatingCount(students[1].name) = 1
    /\ RatingCount(students[2].name) = 1
    /\ raw_avgs[students[1].name] # raw_avgs[students[2].name]

\* n is x rounded to the nearest integer, an exact half to the even one
NearestTiesEven(p, q, n) ==
    /\ 2 * Abs(p - n * q) <= q
    /\ (2 * Abs(p - n * q) = q => n % 2 = 0)

\* C7: with a non-empty pool, group_mean is the mean of the pool,
\* adjustment = 5 - group_mean, and every normalised score is
\* min(9, max(0, round(raw + adjustment))) with halves rounded to even;
\* raw 7.5 with adjustment -1.5 gives 6, raw 9.8 with adjustment +1.0 gives 9.
C7_NormalizerResult ==
    (pc = "comments" /\ all_scores # <<>>) =>
        /\ group_mean.num * Len(all_scores) = Sum(all_scores) * group_mean.den
        /\ adjustment.num * group_mean.den + group_mean.num * adjustment.den
              = 5 * adjustment.den * group_mean.den
        /\ DOMAIN normalised = DOMAIN raw_avgs
        /\ \A n \in DOMAIN raw_avgs :
              LET raw == raw_avgs[n]
                  p == raw.num * adjustment.den + adjustment.num * raw.den
                  q == raw.den * adjustment.den
              IN  \E r \in -30..30 :
                     /\ NearestTiesEven(p, q, r)
                     /\ normalised[n] = (IF r > 9 THEN 9 ELSE IF r < 0 THEN 0 ELSE r)
        /\ (raw_avgs[Alice] = [num |-> 15, den |-> 2]
              /\ adjustment = [num |-> -3, den |-> 2]) => normalised[Alice] = 6
        /\ (raw_avgs[Alice] = [num |-> 49, den |-> 5]
              /\ adjustment = [num |-> 1, den |-> 1]) => normalised[Alice] = 9

\* C7 witness: raw 9.8 with adjustment +1.0 has been normalised to 9, next to
\* a student normalised without clamping.
C7_Witness ==
    /\ pc = "comments"
    /\ raw_avgs[Alice] = [num |-> 49, den |-> 5]
    /\ adjustment = [num |-> 1, den |-> 1]
    /\ normalised[Alice] = 9
    /\ normalised[Bob] = 1

\* t is c without its leading and trailing whitespace
TrimOf(c, t) ==
    IF \A j \in 1..Len(c) : IsSpace(c[j]) THEN t = <<>>
    ELSE \E lo \in 1..Len(c) : \E hi \in lo..Len(c) :
            /\ t = SubSeq(c, lo, hi)
            /\ ~IsSpace(c[lo])
            /\ ~IsSpace(c[hi])
            /\ \A j \in 1..Len(c) : (j < lo \/ j > hi) => IsSpace(c[j])

\* the rows that give the student a comment: not a self-rating row, a
\* justification cell that is present and not blank
GivesComment(i, st) ==
    /\ ~SelfRow(i, st.name)
    /\ st.justification + 1 <= Len(data[i])
    /\ \E j \in 1..Len(data[i][st.justification + 1]) :
          ~IsSpace(data[i][st.justification + 1][j])

ScenarioAData == <<RowBobRatesAlice, RowAliceRatesSelf>>

\* C8: extract_comments gives every student exactly the trimmed non-blank
\* justification cells of the rows that are not the student's self-rating
\* rows, in row order, whether or not the rating cell parses; in scenario A
\* Alice's raw average is 8 and her comments are exactly [great work].
C8_CommentCollection ==
    pc = "report" =>
        /\ \A k \in 1..Len(students) :
              LET st == students[k]
                  got == CommentList(comments, st.name)
                  rows == {i \in 1..Len(data) : GivesComment(i, st)}
              IN  /\ Len(got) = Cardinality(rows)
                  /\ \A i \in rows :
                        TrimOf(data[i][st.justification + 1],
                               got[Cardinality({j \in rows : j <= i})])
                  /\ st.justification = st.overall + 1
        /\ (headers = HeaderA /\ data = ScenarioAData) =>
              /\ raw_avgs[Alice] = [num |-> 8, den |-> 1]
              /\ CommentList(comments, Alice) = <<GreatWork>>

\* C8 witness: scenario A has been through extract_comments.
C8_Witness ==
    /\ pc = "report"
    /\ headers = HeaderA
    /\ data = ScenarioAData
    /\ comments[Alice] = <<GreatWork>>

Terminal == {"exit", "done", "crashed"}

Printed(tag) == \E i \in 1..Len(out) : out[i].tag = tag

ReportStarted == \E i \in 1..Len(out) : out[i].tag \in ReportTags

\* the three fatal conditions of main, read off the inputs
NoPathGiven == Len(argv) < 2

FileUnreadable == file.state # "ok" \/ file.rows = <<>>

NoStudentHeader ==
    /\ ~FileUnreadable
    /\ \A i \in 1..Len(file.rows[1]) : ~HeaderMatches(file.rows[1][i])

NoNameHeader ==
    /\ ~FileUnreadable
    /\ \A i \in 1..Len(file.rows[1]) : ~IsNameHeader(file.rows[1][i])

\* C9: the aggregation stages and generate_report run only after a path was
\* given, the file was read and a student was detected; a run failing one of
\* the three prints its diagnostic, exits non-zero and prints no part of the
\* report.  Without a name column the run warns, excludes no row as a
\* self-rating and still reaches generate_report.
C9_FatalExitsFirst ==
    /\ (pc \in {"calculate", "normalize", "comments", "report", "done", "crashed"}
          \/ ReportStarted) =>
          ~NoPathGiven /\ ~FileUnreadable /\ ~NoStudentHeader
    /\ NoPathGiven => pc \in {"main", "exit"}
    /\ (~NoPathGiven /\ FileUnreadable) => pc \in {"main", "parse", "exit"}
    /\ (~NoPathGiven /\ NoStudentHeader) => pc \in {"main", "parse", "extract", "exit"}
    /\ pc = "exit" =>
          /\ status = 1
          /\ Len(out) = 1
          /\ out[1].tag = (IF NoPathGiven THEN "usage"
                           ELSE IF file.state = "missing" THEN "error_not_found"
                           ELSE IF FileUnreadable THEN "error_reading"
                           ELSE "error_no_students")
    /\ (~NoPathGiven /\ ~NoStudentHeader /\ NoNameHeader) =>
          /\ pc \in {"calculate", "normalize", "comments", "report", "done", "crashed"} =>
                Printed("warning_no_name_col")
          /\ skipped = {}
          /\ cskipped = {}
          /\ pc \in {"normalize", "comments", "report", "done"} =>
                \A k \in 1..Len(students) : \A i \in 1..Len(data) :
                    (students[k].overall + 1 <= Len(data[i])
                       /\ ParseInt(data[i][students[k].overall + 1]).ok)
                        => <<students[k].name, i>> \in scored
          /\ pc \in Terminal => Printed("banner")

\* C9 witness: a run over a header without any student column has exited.
C9_Witness ==
    /\ pc = "exit"
    /\ ~NoPathGiven
    /\ NoStudentHeader
    /\ Len(data) > 0

\* number of normalised scores below / not above m
CountBelow(m) == Cardinality({n \in DOMAIN normalised : normalised[n] < m})

CountUpTo(m) == Cardinality({n \in DOMAIN normalised : normalised[n] <= m})

ReportedMedian == out[CHOOSE i \in 1..Len(out) : out[i].tag = "median"].score

NormCount == Cardinality(DOMAIN normalised)

\* m is the element at 1-based position k of the ascending normalised scores
AtPosition(m, k) ==
    /\ \E n \in DOMAIN normalised : normalised[n] = m
    /\ CountBelow(m) < k
    /\ CountUpTo(m) >= k

\* C10 as claimed: the reported median is 0 without scores, the middle
\* element for an odd count, the lower-middle element (position n/2) for an
\* even count n.
C10_MedianLowerMiddle ==
    Printed("median") =>
        IF NormCount = 0 THEN ReportedMedian = 0
        ELSE IF NormCount % 2 = 1 THEN AtPosition(ReportedMedian, (NormCount + 1) \div 2)
        ELSE AtPosition(ReportedMedian, NormCount \div 2)

\* C10 amended: the reported median is 0 without scores, the middle element
\* for an odd count, the upper-middle element (position n/2 + 1) for an even
\* count n.
C10_MedianUpperMiddle ==
    Printed("median") =>
        IF NormCount = 0 THEN ReportedMedian = 0
        ELSE IF NormCount % 2 = 1 THEN AtPosition(ReportedMedian, (NormCount + 1) \div 2)
        ELSE AtPosition(ReportedMedian, (NormCount \div 2) + 1)

\* C10 witness: a report over two students with different normalised scores
\* has printed its median.
C10_Witness ==
    /\ Printed("median")
    /\ NormCount = 2
    /\ \E a, b \in DOMAIN normalised : normalised[a] < normalised[b]

\* C11: generate_report leaves the registry, the raw averages, the normalised
\* scores and the comment mapping (its keys included) as the producing
\* stages returned them, and calculate_scores, normalize_scores and
\* extract_comments leave the data rows and the registry unchanged.
C11_NoStageMutatesOutputs ==
    [][/\ pc = "report" =>
             /\ students' = students
             /\ raw_avgs' = raw_avgs
             /\ normalised' = normalised
             /\ DOMAIN comments' = DOMAIN comments
             /\ comments' = comments
       /\ pc \in {"calculate", "normalize", "comments"} =>
             /\ data' = data
             /\ students' = students]_vars

====
